---- MODULE Spec2Model ----
(***************************************************************************)
(* Model of the ArcGIS authorization session (ArcGISAuthService) and of    *)
(* the way the feature query client attaches the session's bearer token.   *)
(*                                                                         *)
(* Every async method is split at its await: the part that runs when the   *)
(* method is called (guards, early throws, the request it builds) and the  *)
(* part that runs when the awaited promise settles.  Between the two, any  *)
(* other handler and the clock may run, as on the JavaScript event loop.   *)
(*                                                                         *)
(* JavaScript null / undefined strings are the value Null; a number|null   *)
(* field is <<>> when null and <<n>> when it holds the number n.           *)
(***************************************************************************)
EXTENDS Integers, Sequences, FiniteSets, TLC

(* ------------------------------ bounds -------------------------------- *)

\* the clock runs from StartNow to at most MaxNow, in steps of TickMs
StartNow == 1000
TickMs == 1000
MaxNow == 3000
\* provider-reported lifetimes (expires_in, in seconds) are 0..MaxLifetime
MaxLifetime == 1
\* number of async calls that may be awaiting a result at the same time
MaxInFlight == 2

(* ----------------------------- value sets ----------------------------- *)

Null == "null"
NoExpiry == <<>>

AccessTokens == {"at1", "at2"}
RefreshTokens == {"rt1"}
Lifetimes == 0..MaxLifetime
Verifiers == {"v1"}
Codes == {"c1"}
AppPaths == {"/", "/lsi"}
AuthorizePath == "/sharing/rest/oauth2/authorize"
ClientIds == {"", "cid"}
QueryOps == {"queryFeatures", "queryFeatureById", "queryFeaturesInExtent", "getFeatureStats"}

\* what the token endpoint can answer: the fetch rejects, a non-success
\* status, or a success status with the token payload
TokenResponses ==
  {[kind |-> "neterr"], [kind |-> "notok"]}
  \cup [kind : {"ok"}, access_token : AccessTokens,
        refresh_token : RefreshTokens, expires_in : Lifetimes]

(* ------------------------------- state -------------------------------- *)

VARIABLES
  clientId,        \* arcgisConfig.oauth.clientId, read at startup
  accessToken,     \* ArcGISAuthService.accessToken
  refreshToken,    \* ArcGISAuthService.refreshToken
  tokenExpiry,     \* ArcGISAuthService.tokenExpiry
  codeVerifier,    \* ArcGISAuthService.codeVerifier
  sessionStorage,  \* the keys pkce_verifier and auth_redirect
  location,        \* window.location: pathname and the code query parameter
  now,             \* Date.now()
  pending,         \* the async calls awaiting their promise, by slot
  last,            \* the step just taken: operation, outcome, request, response
  reauthRequired   \* a refresh was rejected and no code exchange succeeded since

vars == <<clientId, accessToken, refreshToken, tokenExpiry, codeVerifier,
          sessionStorage, location, now, pending, last, reauthRequired>>

\* the state of useFeatureLayer
VARIABLES
  locations,       \* useFeatureLayer: locations
  stats,           \* useFeatureLayer: stats
  loading,         \* useFeatureLayer: loading
  error,           \* useFeatureLayer: error
  rounds,          \* the fetchData rounds awaiting their Promise.all, by slot
  dispatched,      \* number of fetchData rounds started so far
  flLast           \* the step of useFeatureLayer just taken

flVars == <<locations, stats, loading, error, rounds, dispatched, flLast>>

\* the state of useGeocoder and of the search box of LsiViewer
VARIABLES
  results,         \* useGeocoder: results
  suggestions,     \* useGeocoder: suggestions
  searchLoading,   \* useGeocoder: loading
  searchError,     \* useGeocoder: error
  searchTerm,      \* LsiViewer: searchTerm
  searches,        \* the search / fetchSuggestions calls awaiting their answer
  geoLast          \* the step of the geocoder just taken

geoVars == <<results, suggestions, searchLoading, searchError, searchTerm,
             searches, geoLast>>

\* a single call of a function of the feature query client
VARIABLES
  call             \* the operation called, the answer it gets and its result

clientVars == <<call>>

viewVars == <<flVars, geoVars, clientVars>>

\* the state of useArcGISAuth
VARIABLES
  authHook         \* isAuthenticated, loading, error, and where checkAuth stands

hookVars == <<authHook>>

allVars == <<vars, viewVars, hookVars>>

\* the fields of the session object and the session store, as one record
Session ==
  [accessToken |-> accessToken, refreshToken |-> refreshToken,
   tokenExpiry |-> tokenExpiry, codeVerifier |-> codeVerifier,
   sessionStorage |-> sessionStorage]

Install(s) ==
  /\ accessToken' = s.accessToken
  /\ refreshToken' = s.refreshToken
  /\ tokenExpiry' = s.tokenExpiry
  /\ codeVerifier' = s.codeVerifier
  /\ sessionStorage' = s.sessionStorage

\* the state after construction of the singleton
NewSession ==
  [accessToken |-> Null, refreshToken |-> Null, tokenExpiry |-> NoExpiry,
   codeVerifier |-> Null,
   sessionStorage |-> [pkce_verifier |-> Null, auth_redirect |-> Null]]

(* --------------------------- pure functions --------------------------- *)

\* milliseconds per second: expires_in is in seconds, Date.now() in milliseconds
MsPerSec == 1000

\* JavaScript !x for a string|null and for a number|null
FalsyStr(x) == x = Null \/ x = ""
FalsyNum(e) == e = NoExpiry \/ e[1] = 0

\* variant: the expiry instant itself still counts as valid
isAuthenticated_inclusive(s, t) ==
  IF FalsyStr(s.accessToken) \/ FalsyNum(s.tokenExpiry)
  THEN FALSE
  ELSE t <= s.tokenExpiry[1]

isAuthenticated(s, t) ==
  IF FalsyStr(s.accessToken) \/ FalsyNum(s.tokenExpiry)
  THEN FALSE
  ELSE t < s.tokenExpiry[1]

getAccessToken(s, t) ==
  IF isAuthenticated(s, t) THEN s.accessToken ELSE Null

\* variant: the refresh token survives
logout_keepsRefreshToken(s) ==
  [s EXCEPT !.accessToken = Null,
            !.tokenExpiry = NoExpiry, !.codeVerifier = Null,
            !.sessionStorage = [pkce_verifier |-> Null, auth_redirect |-> Null]]

\* variant: the session store is left as it is
logout_keepsStorage(s) ==
  [s EXCEPT !.accessToken = Null, !.refreshToken = Null,
            !.tokenExpiry = NoExpiry, !.codeVerifier = Null]

logout(s) ==
  [s EXCEPT !.accessToken = Null, !.refreshToken = Null,
            !.tokenExpiry = NoExpiry, !.codeVerifier = Null,
            !.sessionStorage = [pkce_verifier |-> Null, auth_redirect |-> Null]]

\* variant: expires_in is added to the clock without the conversion to ms
handleCallbackSettled_seconds(s, resp, t) ==
  IF resp.kind # "ok"
  THEN s
  ELSE [s EXCEPT !.accessToken = resp.access_token,
                 !.refreshToken = resp.refresh_token,
                 !.tokenExpiry = <<t + resp.expires_in>>,
                 !.sessionStorage.pkce_verifier = Null]

\* variant: the payload is assigned before the status is looked at
handleCallbackSettled_assignFirst(s, resp, t) ==
  IF resp.kind = "neterr" THEN s
  ELSE IF resp.kind = "notok"
  THEN [s EXCEPT !.accessToken = Null, !.refreshToken = Null, !.tokenExpiry = NoExpiry]
  ELSE [s EXCEPT !.accessToken = resp.access_token,
                 !.refreshToken = resp.refresh_token,
                 !.tokenExpiry = <<t + resp.expires_in * MsPerSec>>,
                 !.sessionStorage.pkce_verifier = Null]

\* handleCallback after its fetch settled with resp at time t: a rejected
\* fetch or a non-success status throws before any assignment
handleCallbackSettled(s, resp, t) ==
  IF resp.kind # "ok"
  THEN s
  ELSE [s EXCEPT !.accessToken = resp.access_token,
                 !.refreshToken = resp.refresh_token,
                 !.tokenExpiry = <<t + resp.expires_in * MsPerSec>>,
                 !.sessionStorage.pkce_verifier = Null]

\* variant: a rejected refresh only throws
refreshSettled_noLogout(s, resp, t) ==
  IF resp.kind # "ok" THEN s
  ELSE [s EXCEPT !.accessToken = resp.access_token,
                 !.tokenExpiry = <<t + resp.expires_in * MsPerSec>>]

\* variant: the refresh token is taken from the refresh answer, which has none
refreshSettled_rotates(s, resp, t) ==
  IF resp.kind = "neterr" THEN s
  ELSE IF resp.kind = "notok" THEN logout(s)
  ELSE [s EXCEPT !.accessToken = resp.access_token,
                 !.refreshToken = Null,
                 !.tokenExpiry = <<t + resp.expires_in * MsPerSec>>]

\* refreshAccessToken after its fetch settled with resp at time t
refreshSettled(s, resp, t) ==
  IF resp.kind = "neterr" THEN s
  ELSE IF resp.kind = "notok" THEN logout(s)
  ELSE [s EXCEPT !.accessToken = resp.access_token,
                 !.tokenExpiry = <<t + resp.expires_in * MsPerSec>>]

\* variant: the refresh request is sent whatever the session holds
refreshAllowed_always(s) == TRUE

\* refreshAccessToken sends a request only when it holds a refresh token
refreshAllowed(s) == ~FalsyStr(s.refreshToken)

\* variant: login goes ahead without a client identifier
loginAllowed_always(cid) == TRUE

\* login throws at once when no client identifier is configured
loginAllowed(cid) == ~FalsyStr(cid)

\* login after generatePKCE resolved with verifier v, on the page at path
loginResumed(s, v, path) ==
  [s EXCEPT !.codeVerifier = v,
            !.sessionStorage.pkce_verifier = v,
            !.sessionStorage.auth_redirect = path]

\* variant: the address is always reset to the root path
redirectPath_root(s) == "/"

\* checkForCallback after handleCallback resolved: the path to go back to
redirectPath(s) ==
  IF FalsyStr(s.sessionStorage.auth_redirect) THEN "/" ELSE s.sessionStorage.auth_redirect

\* variant: the stored token is attached without asking whether it is valid
queryToken_unchecked(s, t) == s.accessToken

\* the token every query operation appends to its request, if any
queryToken(s, t) == getAccessToken(s, t)

(* ------------------------- requests and calls ------------------------- *)

NoRequest == [endpoint |-> "none"]
NoResponse == [kind |-> "none"]
Idle == [op |-> "idle"]

codeRequest(code, verifier) ==
  [endpoint |-> "token", grant_type |-> "authorization_code",
   code |-> code, code_verifier |-> verifier]

refreshRequest(rt) ==
  [endpoint |-> "token", grant_type |-> "refresh_token", refresh_token |-> rt]

queryRequest(op, s, t) ==
  [endpoint |-> "query", op |-> op, token |-> queryToken(s, t)]

Slots == 1..MaxInFlight
\* a new call takes the first free slot
FreeSlots == {i \in Slots : pending[i] = Idle /\ \A j \in 1..(i-1) : pending[j] # Idle}
NoPending == [i \in Slots |-> Idle]

\* the app's code runs only while one of its pages is loaded
OnApp == location.pathname \in AppPaths

\* phase is "call" for the part of a method that runs when it is called and
\* "settle" for the part that runs when its awaited promise has settled
Step(op, via, phase, outcome, req, resp) ==
  [op |-> op, via |-> via, phase |-> phase, outcome |-> outcome,
   req |-> req, resp |-> resp]

(* ------------------------- texts and features ------------------------- *)

\* A text whose characters matter (an address, a search text) is the
\* sequence of its characters; an absent text (undefined, null) is NoText.
NoText == <<Null>>
FalsyText(t) == t = NoText \/ t = <<>>

Oak == <<"O", "a", "k">>
UnknownAddress == <<"U", "n", "k", "n", "o", "w", "n", " ",
                    "A", "d", "d", "r", "e", "s", "s">>

\* number of features a query answer may hold
MaxFeatures == 2

\* the attributes of a feature that the functions modelled here read
Features ==
  [OBJECTID : {1},
   Address : {Oak, NoText},
   CustomerMaterial : {"Lead", "Copper", Null},
   SupplierMaterial : {"Lead", "Unknown"},
   Status : {"VERIFIED", "ASSUMED", Null}]

SeqsUpTo(S, n) == UNION {[1..k -> S] : k \in 0..n}
FeatureLists == SeqsUpTo(Features, MaxFeatures)

featureToLocation(feature) ==
  [id |-> feature.OBJECTID,
   address |-> IF FalsyText(feature.Address) THEN UnknownAddress ELSE feature.Address,
   customerMaterial |-> IF FalsyStr(feature.CustomerMaterial) THEN "Unknown"
                        ELSE feature.CustomerMaterial,
   supplierMaterial |-> IF FalsyStr(feature.SupplierMaterial) THEN "Unknown"
                        ELSE feature.SupplierMaterial,
   status |-> IF FalsyStr(feature.Status) THEN "UNKNOWN" ELSE feature.Status]

\* Array.prototype.map(featureToLocation)
mapToLocations(features) == [i \in 1..Len(features) |-> featureToLocation(features[i])]

ZeroStats == [total |-> 0, lead |-> 0, unknown |-> 0, verified |-> 0, assumed |-> 0]

isLead_customerOnly(f) == f.CustomerMaterial = "Lead"

isLead(f) == f.CustomerMaterial = "Lead" \/ f.SupplierMaterial = "Lead"
isUnknown(f) == f.CustomerMaterial = "Unknown" \/ f.SupplierMaterial = "Unknown"
isVerified(f) == f.Status = "VERIFIED"
isAssumed(f) == f.Status = "ASSUMED"

\* features.filter(p).length is the number of positions that satisfy p
statsOf(features) ==
  LET at == 1..Len(features)
  IN [total |-> Len(features),
      lead |-> Cardinality({i \in at : isLead(features[i])}),
      unknown |-> Cardinality({i \in at : isUnknown(features[i])}),
      verified |-> Cardinality({i \in at : isVerified(features[i])}),
      assumed |-> Cardinality({i \in at : isAssumed(features[i])})]

(* ----------------------- answers of the provider ---------------------- *)

\* fetch either rejects (kind "neterr") or resolves with a response that
\* has a status (ok) and a body: not JSON ("invalid"), a provider error
\* payload ("error"), a payload of items ("items") or some other JSON
\* document ("other").
Bodies(ItemLists) ==
  {[json |-> "invalid"], [json |-> "error"], [json |-> "other"]}
    \cup [json : {"items"}, items : ItemLists]

Answers(ItemLists) ==
  {[kind |-> "neterr"]} \cup [kind : {"http"}, ok : BOOLEAN, body : Bodies(ItemLists)]

Resolved(v) == [settled |-> "resolved", value |-> v]
Rejected(e) == [settled |-> "rejected", reason |-> e]

\* what `await response.json()` followed by the data.error test gives:
\* the name of the error thrown, or "none"
jsonError(body) ==
  IF body.json = "invalid" THEN "SyntaxError"
  ELSE IF body.json = "error" THEN "ArcGIS Error"
  ELSE "none"

(* ------------------------ feature query client ------------------------ *)

queryFeaturesSettled_swallow(resp) ==
  IF resp.kind = "http" /\ resp.ok /\ resp.body.json = "items"
  THEN Resolved(mapToLocations(resp.body.items))
  ELSE Resolved(<<>>)

queryFeaturesSettled(resp) ==
  IF resp.kind = "neterr" THEN Rejected("TypeError")
  ELSE IF ~resp.ok THEN Rejected("Feature service query failed")
  ELSE IF jsonError(resp.body) # "none" THEN Rejected(jsonError(resp.body))
  ELSE IF resp.body.json # "items" THEN Rejected("TypeError")
  ELSE Resolved(mapToLocations(resp.body.items))

\* Location | null: <<>> when null, <<loc>> otherwise
queryFeatureByIdSettled(resp) ==
  IF resp.kind = "neterr" THEN Resolved(<<>>)
  ELSE IF jsonError(resp.body) # "none" THEN Resolved(<<>>)
  ELSE IF resp.body.json # "items" THEN Resolved(<<>>)
  ELSE IF Len(resp.body.items) > 0
       THEN Resolved(<<featureToLocation(resp.body.items[1])>>)
       ELSE Resolved(<<>>)

queryFeaturesInExtentSettled(resp) ==
  IF resp.kind = "neterr" THEN Rejected("TypeError")
  ELSE IF jsonError(resp.body) # "none" THEN Rejected(jsonError(resp.body))
  ELSE IF resp.body.json # "items" THEN Rejected("TypeError")
  ELSE Resolved(mapToLocations(resp.body.items))

getFeatureStatsSettled(resp) ==
  IF resp.kind = "neterr" THEN Resolved(ZeroStats)
  ELSE IF jsonError(resp.body) # "none" THEN Resolved(ZeroStats)
  ELSE IF resp.body.json # "items" THEN Resolved(ZeroStats)
  ELSE Resolved(statsOf(resp.body.items))

(* --------------------------- initial values --------------------------- *)

NoStep == [op |-> "none"]
NoCall == [op |-> "none"]

\* useFeatureLayer after its useState calls
FLIdle ==
  /\ locations = <<>>
  /\ stats = ZeroStats
  /\ loading = TRUE
  /\ error = Null
  /\ rounds = {}
  /\ dispatched = 0
  /\ flLast = NoStep

\* useGeocoder and the search box after their useState calls
GeoIdle ==
  /\ results = <<>>
  /\ suggestions = <<>>
  /\ searchLoading = FALSE
  /\ searchError = Null
  /\ searchTerm = <<>>
  /\ searches = <<>>
  /\ geoLast = NoStep

ClientIdle == call = NoCall

ViewIdle == FLIdle /\ GeoIdle /\ ClientIdle

\* useArcGISAuth after its useState calls; its mount effect has not run yet
HookMounting ==
  [isAuthenticated |-> FALSE, loading |-> TRUE, error |-> Null, checkAuth |-> "pending"]

\* the authorization session right after construction, on the page "/"
AuthIdle ==
  /\ authHook = HookMounting
  /\ clientId = "cid"
  /\ accessToken = NewSession.accessToken
  /\ refreshToken = NewSession.refreshToken
  /\ tokenExpiry = NewSession.tokenExpiry
  /\ codeVerifier = NewSession.codeVerifier
  /\ sessionStorage = NewSession.sessionStorage
  /\ location = [pathname |-> "/", code |-> Null]
  /\ now = StartNow
  /\ pending = NoPending
  /\ last = [op |-> "construct", via |-> "direct", phase |-> "call", outcome |-> "returned",
             req |-> NoRequest, resp |-> NoResponse]
  /\ reauthRequired = FALSE

(* -------------------------------- Init -------------------------------- *)

Init ==
  /\ clientId \in ClientIds
  /\ accessToken = NewSession.accessToken
  /\ refreshToken = NewSession.refreshToken
  /\ tokenExpiry = NewSession.tokenExpiry
  /\ codeVerifier = NewSession.codeVerifier
  /\ sessionStorage = NewSession.sessionStorage
  /\ location \in [pathname : AppPaths, code : {Null}]
  /\ now = StartNow
  /\ pending = NoPending
  /\ last = [op |-> "construct", via |-> "direct", phase |-> "call", outcome |-> "returned",
             req |-> NoRequest, resp |-> NoResponse]
  /\ reauthRequired = FALSE
  /\ ViewIdle
  /\ authHook = HookMounting

(* ------------------------------ actions ------------------------------- *)

\* time passes
Tick ==
  /\ now + TickMs <= MaxNow
  /\ now' = now + TickMs
  /\ last' = Step("tick", "direct", "call", "returned", NoRequest, NoResponse)
  /\ UNCHANGED <<clientId, accessToken, refreshToken, tokenExpiry, codeVerifier,
                 sessionStorage, location, pending, reauthRequired>>
  /\ UNCHANGED viewVars
  /\ UNCHANGED hookVars

\* login() up to its await of generatePKCE
LoginCallStep ==
  /\ OnApp
  /\ IF ~loginAllowed(clientId)
     THEN /\ last' = Step("login", "direct", "call", "threw", NoRequest, NoResponse)
          /\ UNCHANGED pending
     ELSE \E i \in FreeSlots, v \in Verifiers :
            /\ pending' = [pending EXCEPT ![i] = [op |-> "login", verifier |-> v]]
            /\ last' = Step("login", "direct", "call", "pending", NoRequest, NoResponse)
  /\ UNCHANGED <<clientId, accessToken, refreshToken, tokenExpiry, codeVerifier,
                 sessionStorage, location, now, reauthRequired>>
  /\ UNCHANGED viewVars

LoginCall == LoginCallStep /\ UNCHANGED hookVars

\* login() after generatePKCE resolved: store the verifier and the current
\* path, then leave the page for the authorization endpoint
LoginResume ==
  /\ OnApp
  /\ \E i \in Slots :
       /\ pending[i].op = "login"
       /\ Install(loginResumed(Session, pending[i].verifier, location.pathname))
       /\ location' = [pathname |-> AuthorizePath, code |-> Null]
       /\ pending' = [pending EXCEPT ![i] = Idle]
       /\ last' = Step("login", "direct", "settle", "returned", NoRequest, NoResponse)
  /\ UNCHANGED <<clientId, now, reauthRequired>>
  /\ UNCHANGED viewVars
  /\ UNCHANGED hookVars

\* the browser loads the app again: the module-level singleton is constructed
\* anew, the session store and the address are kept, and the continuations
\* of the page that was left never run
pageLoaded(s) == [NewSession EXCEPT !.sessionStorage = s.sessionStorage]

\* the provider sends the user agent back to the redirect address, with an
\* authorization code or (sign-in abandoned) without one
ProviderRedirect ==
  /\ location.pathname = AuthorizePath
  /\ \E c \in Codes \cup {Null} : location' = [pathname |-> "/", code |-> c]
  /\ Install(pageLoaded(Session))
  /\ pending' = NoPending
  /\ last' = Step("pageLoad", "direct", "call", "returned", NoRequest, NoResponse)
  /\ UNCHANGED <<clientId, now, reauthRequired>>
  /\ UNCHANGED viewVars
  /\ authHook' = HookMounting

\* the user reloads the page
Reload ==
  /\ OnApp
  /\ Install(pageLoaded(Session))
  /\ pending' = NoPending
  /\ last' = Step("pageLoad", "direct", "call", "returned", NoRequest, NoResponse)
  /\ UNCHANGED <<clientId, location, now, reauthRequired>>
  /\ UNCHANGED viewVars
  /\ authHook' = HookMounting

\* handleCallback(code) up to its await of fetch, called directly or from
\* checkForCallback (via)
HandleCallbackCallVia(code, via) ==
  /\ IF FalsyStr(sessionStorage.pkce_verifier)
     THEN /\ last' = Step("handleCallback", via, "call", "threw", NoRequest, NoResponse)
          /\ UNCHANGED pending
     ELSE \E i \in FreeSlots :
            /\ pending' = [pending EXCEPT ![i] =
                 [op |-> "handleCallback", via |-> via,
                  req |-> codeRequest(code, sessionStorage.pkce_verifier)]]
            /\ last' = Step("handleCallback", via, "call", "pending",
                            codeRequest(code, sessionStorage.pkce_verifier), NoResponse)
  /\ UNCHANGED <<clientId, accessToken, refreshToken, tokenExpiry, codeVerifier,
                 sessionStorage, location, now, reauthRequired>>

HandleCallbackCall ==
  /\ OnApp
  /\ \E code \in Codes : HandleCallbackCallVia(code, "direct")
  /\ UNCHANGED viewVars
  /\ UNCHANGED hookVars

\* checkForCallback(): without a code in the address it returns false; with
\* one it calls handleCallback(code) and awaits it
CheckForCallbackStep ==
  /\ OnApp
  /\ IF FalsyStr(location.code)
     THEN /\ last' = Step("checkForCallback", "direct", "call", "returned", NoRequest, NoResponse)
          /\ UNCHANGED <<clientId, accessToken, refreshToken, tokenExpiry, codeVerifier,
                         sessionStorage, location, now, pending, reauthRequired>>
     ELSE HandleCallbackCallVia(location.code, "checkForCallback")
  /\ UNCHANGED viewVars

CheckForCallbackCall == CheckForCallbackStep /\ UNCHANGED hookVars

\* the token endpoint answers a code exchange: handleCallback runs to its end
\* and, when it was awaited by checkForCallback and did not throw,
\* checkForCallback restores the stored path and returns true
HandleCallbackSettleStep ==
  /\ OnApp
  /\ \E i \in Slots, resp \in TokenResponses :
       /\ pending[i].op = "handleCallback"
       /\ pending' = [pending EXCEPT ![i] = Idle]
       /\ LET s1 == handleCallbackSettled(Session, resp, now)
              viaCheck == pending[i].via = "checkForCallback" /\ resp.kind = "ok"
          IN /\ Install(IF viaCheck
                        THEN [s1 EXCEPT !.sessionStorage.auth_redirect = Null]
                        ELSE s1)
             /\ location' = IF viaCheck
                            THEN [pathname |-> redirectPath(s1), code |-> Null]
                            ELSE location
       /\ last' = Step("handleCallback", pending[i].via, "settle",
                       IF resp.kind = "ok" THEN "returned" ELSE "threw",
                       NoRequest, resp)
       /\ reauthRequired' = IF resp.kind = "ok" THEN FALSE ELSE reauthRequired
  /\ UNCHANGED <<clientId, now>>
  /\ UNCHANGED viewVars

HandleCallbackSettle == HandleCallbackSettleStep /\ UNCHANGED hookVars

\* refreshAccessToken() up to its await of fetch
RefreshCall ==
  /\ OnApp
  /\ IF ~refreshAllowed(Session)
     THEN /\ last' = Step("refreshAccessToken", "direct", "call", "threw", NoRequest, NoResponse)
          /\ UNCHANGED pending
     ELSE \E i \in FreeSlots :
            /\ pending' = [pending EXCEPT ![i] =
                 [op |-> "refreshAccessToken", via |-> "direct",
                  req |-> refreshRequest(refreshToken)]]
            /\ last' = Step("refreshAccessToken", "direct", "call", "pending",
                            refreshRequest(refreshToken), NoResponse)
  /\ UNCHANGED <<clientId, accessToken, refreshToken, tokenExpiry, codeVerifier,
                 sessionStorage, location, now, reauthRequired>>
  /\ UNCHANGED viewVars
  /\ UNCHANGED hookVars

\* the token endpoint answers a refresh request
RefreshSettle ==
  /\ OnApp
  /\ \E i \in Slots, resp \in TokenResponses :
       /\ pending[i].op = "refreshAccessToken"
       /\ pending' = [pending EXCEPT ![i] = Idle]
       /\ Install(refreshSettled(Session, resp, now))
       /\ last' = Step("refreshAccessToken", "direct", "settle",
                       IF resp.kind = "ok" THEN "returned" ELSE "threw",
                       NoRequest, resp)
       /\ reauthRequired' = IF resp.kind = "notok" THEN TRUE ELSE reauthRequired
  /\ UNCHANGED <<clientId, location, now>>
  /\ UNCHANGED viewVars
  /\ UNCHANGED hookVars

\* logout()
LogoutStep ==
  /\ OnApp
  /\ Install(logout(Session))
  /\ last' = Step("logout", "direct", "call", "returned", NoRequest, NoResponse)
  /\ UNCHANGED <<clientId, location, now, pending, reauthRequired>>
  /\ UNCHANGED viewVars

Logout == LogoutStep /\ UNCHANGED hookVars

\* a query operation builds its request and sends it
Query ==
  /\ OnApp
  /\ \E op \in QueryOps :
       last' = Step(op, "direct", "call", "pending", queryRequest(op, Session, now), NoResponse)
  /\ UNCHANGED <<clientId, accessToken, refreshToken, tokenExpiry, codeVerifier,
                 sessionStorage, location, now, pending, reauthRequired>>
  /\ UNCHANGED viewVars
  /\ UNCHANGED hookVars

Next ==
  \/ Tick
  \/ LoginCall
  \/ LoginResume
  \/ ProviderRedirect
  \/ Reload
  \/ HandleCallbackCall
  \/ CheckForCallbackCall
  \/ HandleCallbackSettle
  \/ RefreshCall
  \/ RefreshSettle
  \/ Logout
  \/ Query

Spec == Init /\ [][Next]_vars

\* Spec with what the runtime guarantees: the clock advances and every
\* awaited promise (generatePKCE, the two token requests) settles.  Nothing
\* in the repository calls refreshAccessToken, so no call of it is promised.
FairSpec ==
  /\ Spec
  /\ WF_vars(Tick)
  /\ WF_vars(LoginResume)
  /\ WF_vars(HandleCallbackSettle)
  /\ WF_vars(RefreshSettle)

TypeOK ==
  /\ clientId \in ClientIds
  /\ accessToken \in AccessTokens \cup {Null}
  /\ refreshToken \in RefreshTokens \cup {Null}
  /\ tokenExpiry = NoExpiry \/ (Len(tokenExpiry) = 1 /\ tokenExpiry[1] \in Nat)
  /\ codeVerifier \in Verifiers \cup {Null}
  /\ sessionStorage.pkce_verifier \in Verifiers \cup {Null}
  /\ sessionStorage.auth_redirect \in AppPaths \cup {Null}
  /\ location.pathname \in AppPaths \cup {AuthorizePath}
  /\ location.code \in Codes \cup {Null}
  /\ now \in StartNow..MaxNow
  /\ reauthRequired \in BOOLEAN

(* --------------- one call of the feature query client ----------------- *)

\* A call is the operation, the answer its request gets and, once the
\* function has run to its end, the way its promise settled.
ClientInit ==
  /\ AuthIdle
  /\ FLIdle
  /\ GeoIdle
  /\ \E op \in QueryOps, resp \in Answers(FeatureLists) :
       call = [op |-> op, resp |-> resp, done |-> FALSE]

ClientSettle(op, result) ==
  /\ call.op = op
  /\ ~call.done
  /\ call' = [op |-> op, resp |-> call.resp, done |-> TRUE, result |-> result]
  /\ UNCHANGED <<vars, hookVars, flVars, geoVars>>

QueryFeaturesSettle == ClientSettle("queryFeatures", queryFeaturesSettled(call.resp))
QueryFeatureByIdSettle == ClientSettle("queryFeatureById", queryFeatureByIdSettled(call.resp))
QueryFeaturesInExtentSettle ==
  ClientSettle("queryFeaturesInExtent", queryFeaturesInExtentSettled(call.resp))
GetFeatureStatsSettle == ClientSettle("getFeatureStats", getFeatureStatsSettled(call.resp))

ClientNext ==
  \/ QueryFeaturesSettle
  \/ QueryFeatureByIdSettle
  \/ QueryFeaturesInExtentSettle
  \/ GetFeatureStatsSettle

SpecClient == ClientInit /\ [][ClientNext]_allVars

(* --------------------------- useFeatureLayer -------------------------- *)

\* number of fetchData rounds that are started
MaxFetches == 2

\* the feature lists that answers carry here: the prefixes of SampleFeatures
SampleFeatures ==
  <<[OBJECTID |-> 1, Address |-> Oak, CustomerMaterial |-> "Lead",
     SupplierMaterial |-> "Unknown", Status |-> "VERIFIED"],
    [OBJECTID |-> 1, Address |-> NoText, CustomerMaterial |-> "Copper",
     SupplierMaterial |-> "Lead", Status |-> Null]>>
SampleLists == {SubSeq(SampleFeatures, 1, k) : k \in 0..Len(SampleFeatures)}

\* an answer without the items it carries
Outline(resp) ==
  IF resp.kind = "neterr" THEN [kind |-> "neterr"]
  ELSE [kind |-> "http", ok |-> resp.ok, json |-> resp.body.json]

\* the hook's state as a record
FLState == [locations |-> locations, stats |-> stats, loading |-> loading, error |-> error]

fetchDataCalled(h) == [h EXCEPT !.loading = TRUE, !.error = Null]

fetchDataSettled_clears(h, q, s) ==
  IF q.settled = "rejected" \/ s.settled = "rejected"
  THEN [h EXCEPT !.locations = <<>>, !.stats = ZeroStats,
                 !.error = IF q.settled = "rejected" THEN q.reason ELSE s.reason,
                 !.loading = FALSE]
  ELSE [h EXCEPT !.locations = q.value, !.stats = s.value, !.loading = FALSE]

\* q and s are the ways the promises of queryFeatures and getFeatureStats
\* settled; Promise.all rejects with the reason of a rejected one
fetchDataSettled(h, q, s) ==
  IF q.settled = "rejected" \/ s.settled = "rejected"
  THEN [h EXCEPT !.error = IF q.settled = "rejected" THEN q.reason ELSE s.reason,
                 !.loading = FALSE]
  ELSE [h EXCEPT !.locations = q.value, !.stats = s.value, !.loading = FALSE]

InstallFL(h) ==
  /\ locations' = h.locations
  /\ stats' = h.stats
  /\ loading' = h.loading
  /\ error' = h.error

\* fetchData up to its await: run by the effect on mount, after a change of
\* the filters, and by refetch
FetchDataCall ==
  /\ dispatched < MaxFetches
  /\ dispatched' = dispatched + 1
  /\ rounds' = rounds \cup {dispatched + 1}
  /\ InstallFL(fetchDataCalled(FLState))
  /\ flLast' = [op |-> "fetchData", phase |-> "call", gen |-> dispatched + 1]
  /\ UNCHANGED <<vars, hookVars, geoVars, clientVars>>

\* fetchData after its await, for any round in flight and any two answers
FetchDataSettle ==
  /\ \E g \in rounds, q \in Answers(SampleLists), s \in Answers(SampleLists) :
       /\ rounds' = rounds \ {g}
       /\ InstallFL(fetchDataSettled(FLState, queryFeaturesSettled(q),
                                     getFeatureStatsSettled(s)))
       /\ flLast' = [op |-> "fetchData", phase |-> "settle", gen |-> g,
                     q |-> Outline(q), s |-> Outline(s)]
  /\ UNCHANGED <<dispatched, vars, hookVars, geoVars, clientVars>>

FLInit == AuthIdle /\ ViewIdle

FLNext == FetchDataCall \/ FetchDataSettle

SpecFeatureLayer == FLInit /\ [][FLNext]_allVars

(* -------------------------- address resolver -------------------------- *)

\* search texts are absent or hold 0..MaxTextLen characters
MaxTextLen == 3
\* number of hook calls that may be awaiting their answer at the same time
MaxSearches == 2

SearchTexts == {NoText} \cup SeqsUpTo({"a"}, MaxTextLen)

MinSearchLen == 3
MinSuggestLen == 2

ResolverOps == {"geocodeAddress", "getSuggestions", "findAddressFromMagicKey",
                "reverseGeocode"}

\* the answers carry the prefixes of these lists
SampleCandidates ==
  <<[address |-> Oak, location |-> [x |-> 1, y |-> 2], score |-> 100],
    [address |-> UnknownAddress, location |-> [x |-> 3, y |-> 4], score |-> 80]>>
CandidateLists == {SubSeq(SampleCandidates, 1, k) : k \in 0..Len(SampleCandidates)}
SampleSuggestions == <<[text |-> Oak, magicKey |-> "mk1"]>>
SuggestionLists == {SubSeq(SampleSuggestions, 1, k) : k \in 0..Len(SampleSuggestions)}
\* data.address of a reverseGeocode answer
AddressRecords == [LongLabel : {Oak, NoText}, Address : {Oak, NoText}]

ResolverAnswers(op) ==
  CASE op = "geocodeAddress" -> Answers(CandidateLists)
    [] op = "getSuggestions" -> Answers(SuggestionLists)
    [] op = "findAddressFromMagicKey" -> Answers(CandidateLists)
    [] op = "reverseGeocode" -> Answers(AddressRecords)

candidateToResult(c) ==
  [address |-> c.address, location |-> [x |-> c.location.x, y |-> c.location.y],
   score |-> c.score]
mapToResults(cs) == [i \in 1..Len(cs) |-> candidateToResult(cs[i])]

\* whether the function goes on to fetch
geocodeAddressSends_any(searchText) == ~FalsyText(searchText)

geocodeAddressSends(searchText) ==
  ~(FalsyText(searchText) \/ Len(searchText) < MinSearchLen)

getSuggestionsSends(searchText) ==
  ~(FalsyText(searchText) \/ Len(searchText) < MinSuggestLen)

geocodeAddressSettled(resp) ==
  IF resp.kind = "neterr" THEN Resolved(<<>>)
  ELSE IF ~resp.ok THEN Resolved(<<>>)
  ELSE IF jsonError(resp.body) # "none" THEN Resolved(<<>>)
  ELSE IF resp.body.json # "items" THEN Resolved(<<>>)
  ELSE Resolved(mapToResults(resp.body.items))

getSuggestionsSettled(resp) ==
  IF resp.kind = "neterr" THEN Resolved(<<>>)
  ELSE IF jsonError(resp.body) # "none" THEN Resolved(<<>>)
  ELSE IF resp.body.json # "items" THEN Resolved(<<>>)
  ELSE Resolved(resp.body.items)

\* GeocodeResult | null: <<>> when null
findAddressFromMagicKeySettled(resp) ==
  IF resp.kind = "neterr" THEN Resolved(<<>>)
  ELSE IF jsonError(resp.body) # "none" THEN Resolved(<<>>)
  ELSE IF resp.body.json # "items" THEN Resolved(<<>>)
  ELSE IF Len(resp.body.items) = 0 THEN Resolved(<<>>)
  ELSE Resolved(<<candidateToResult(resp.body.items[1])>>)

\* string | null: <<>> when null
reverseGeocodeSettled(resp) ==
  IF resp.kind = "neterr" THEN Resolved(<<>>)
  ELSE IF jsonError(resp.body) # "none" THEN Resolved(<<>>)
  ELSE IF resp.body.json # "items" THEN Resolved(<<>>)
  ELSE Resolved(<<IF FalsyText(resp.body.items.LongLabel)
                  THEN resp.body.items.Address
                  ELSE resp.body.items.LongLabel>>)

NoResult == [settled |-> "pending"]

\* one call of a resolver function, from its first line to its return
ResolverRun(op, sends, result) ==
  /\ call.op = op
  /\ ~call.done
  /\ call' = [call EXCEPT !.done = TRUE, !.sent = sends,
                          !.result = IF sends THEN result ELSE Resolved(<<>>)]
  /\ UNCHANGED <<vars, hookVars, flVars, geoVars>>

GeocodeAddressRun ==
  ResolverRun("geocodeAddress", geocodeAddressSends(call.text),
              geocodeAddressSettled(call.resp))
GetSuggestionsRun ==
  ResolverRun("getSuggestions", getSuggestionsSends(call.text),
              getSuggestionsSettled(call.resp))
FindAddressFromMagicKeyRun ==
  ResolverRun("findAddressFromMagicKey", TRUE, findAddressFromMagicKeySettled(call.resp))
ReverseGeocodeRun ==
  ResolverRun("reverseGeocode", TRUE, reverseGeocodeSettled(call.resp))

(* ----------------------------- useGeocoder ---------------------------- *)

GeoState == [results |-> results, suggestions |-> suggestions,
             loading |-> searchLoading, error |-> searchError]

InstallGeo(h) ==
  /\ results' = h.results
  /\ suggestions' = h.suggestions
  /\ searchLoading' = h.loading
  /\ searchError' = h.error

searchAllowed(text) == ~(FalsyText(text) \/ Len(text) < MinSearchLen)
fetchSuggestionsAllowed(text) == ~(FalsyText(text) \/ Len(text) < MinSuggestLen)

\* search up to its return or its await
searchCalled(h, text) ==
  IF ~searchAllowed(text)
  THEN [h EXCEPT !.results = <<>>]
  ELSE [h EXCEPT !.loading = TRUE, !.error = Null]

searchSettled(h, r) ==
  IF r.settled = "rejected"
  THEN [h EXCEPT !.error = r.reason, !.loading = FALSE]
  ELSE [h EXCEPT !.results = r.value, !.loading = FALSE]

fetchSuggestionsCalled(h, text) ==
  IF ~fetchSuggestionsAllowed(text) THEN [h EXCEPT !.suggestions = <<>>] ELSE h

fetchSuggestionsSettled(h, r) ==
  IF r.settled = "rejected"
  THEN [h EXCEPT !.suggestions = <<>>]
  ELSE [h EXCEPT !.suggestions = r.value]

clearResults(h) == [h EXCEPT !.results = <<>>, !.suggestions = <<>>, !.error = Null]

\* the hook is used only in behaviours that make no direct resolver call
HookRuns == call = NoCall

\* an awaited resolver call: sent tells whether it went on to fetch
SearchCallOf(text) ==
  /\ InstallGeo(searchCalled(GeoState, text))
  /\ IF searchAllowed(text)
     THEN /\ Len(searches) < MaxSearches
          /\ searches' = Append(searches, [op |-> "search",
                                           sent |-> geocodeAddressSends(text)])
          /\ geoLast' = [op |-> "search", phase |-> "call", text |-> text,
                         sent |-> geocodeAddressSends(text)]
     ELSE /\ searches' = searches
          /\ geoLast' = [op |-> "search", phase |-> "call", text |-> text,
                         sent |-> FALSE]

SearchCall ==
  /\ HookRuns
  /\ \E text \in SearchTexts : SearchCallOf(text)
  /\ UNCHANGED <<searchTerm, vars, hookVars, flVars, clientVars>>

\* LsiViewer.handleSearch, for a value typed into the search box
HandleSearch ==
  /\ HookRuns
  /\ \E value \in SearchTexts \ {NoText} :
       /\ searchTerm' = value
       /\ IF Len(value) >= MinSearchLen
          THEN SearchCallOf(value)
          ELSE /\ geoLast' = [op |-> "handleSearch", phase |-> "call", text |-> value,
                              sent |-> FALSE]
               /\ UNCHANGED <<results, suggestions, searchLoading, searchError, searches>>
  /\ UNCHANGED <<vars, hookVars, flVars, clientVars>>

FetchSuggestionsCall ==
  /\ HookRuns
  /\ \E text \in SearchTexts :
       /\ InstallGeo(fetchSuggestionsCalled(GeoState, text))
       /\ IF fetchSuggestionsAllowed(text)
          THEN /\ Len(searches) < MaxSearches
               /\ searches' = Append(searches, [op |-> "fetchSuggestions",
                                                sent |-> getSuggestionsSends(text)])
               /\ geoLast' = [op |-> "fetchSuggestions", phase |-> "call", text |-> text,
                              sent |-> getSuggestionsSends(text)]
          ELSE /\ searches' = searches
               /\ geoLast' = [op |-> "fetchSuggestions", phase |-> "call", text |-> text,
                              sent |-> FALSE]
  /\ UNCHANGED <<searchTerm, vars, hookVars, flVars, clientVars>>

Remove(s, i) == SubSeq(s, 1, i - 1) \o SubSeq(s, i + 1, Len(s))

SearchSettle ==
  /\ HookRuns
  /\ \E i \in DOMAIN searches :
       /\ searches[i].op = "search"
       /\ searches' = Remove(searches, i)
       /\ \E resp \in Answers(CandidateLists) :
            /\ InstallGeo(searchSettled(GeoState,
                 IF searches[i].sent THEN geocodeAddressSettled(resp) ELSE Resolved(<<>>)))
            /\ geoLast' = [op |-> "search", phase |-> "settle", pos |-> i,
                           resp |-> Outline(resp)]
  /\ UNCHANGED <<searchTerm, vars, hookVars, flVars, clientVars>>

FetchSuggestionsSettle ==
  /\ HookRuns
  /\ \E i \in DOMAIN searches :
       /\ searches[i].op = "fetchSuggestions"
       /\ searches' = Remove(searches, i)
       /\ \E resp \in Answers(SuggestionLists) :
            /\ InstallGeo(fetchSuggestionsSettled(GeoState,
                 IF searches[i].sent THEN getSuggestionsSettled(resp) ELSE Resolved(<<>>)))
            /\ geoLast' = [op |-> "fetchSuggestions", phase |-> "settle", pos |-> i,
                           resp |-> Outline(resp)]
  /\ UNCHANGED <<searchTerm, vars, hookVars, flVars, clientVars>>

ClearResults ==
  /\ HookRuns
  /\ InstallGeo(clearResults(GeoState))
  /\ geoLast' = [op |-> "clearResults", phase |-> "call"]
  /\ UNCHANGED <<searchTerm, searches, vars, hookVars, flVars, clientVars>>

\* either the hook is used, or one resolver function is called directly
GeoInit ==
  /\ AuthIdle
  /\ FLIdle
  /\ GeoIdle
  /\ \/ call = NoCall
     \/ \E op \in ResolverOps, text \in SearchTexts :
          \E resp \in ResolverAnswers(op) :
            call = [op |-> op, text |-> text, resp |-> resp, done |-> FALSE,
                    sent |-> FALSE, result |-> NoResult]

GeoNext ==
  \/ GeocodeAddressRun
  \/ GetSuggestionsRun
  \/ FindAddressFromMagicKeyRun
  \/ ReverseGeocodeRun
  \/ SearchCall
  \/ HandleSearch
  \/ FetchSuggestionsCall
  \/ SearchSettle
  \/ FetchSuggestionsSettle
  \/ ClearResults

SpecGeocoder == GeoInit /\ [][GeoNext]_allVars

(* ------------------- LsiViewer: filteredLocations --------------------- *)

\* number of records of locations, and of characters of the search term
MaxLocs == 2
MaxTermLen == 2

UpperLetters == <<"A", "B", "C", "D", "E", "F", "G", "H", "I", "J", "K", "L", "M",
                  "N", "O", "P", "Q", "R", "S", "T", "U", "V", "W", "X", "Y", "Z">>
LowerLetters == <<"a", "b", "c", "d", "e", "f", "g", "h", "i", "j", "k", "l", "m",
                  "n", "o", "p", "q", "r", "s", "t", "u", "v", "w", "x", "y", "z">>

toLowerCaseChar(c) ==
  IF \E i \in DOMAIN UpperLetters : UpperLetters[i] = c
  THEN LowerLetters[CHOOSE i \in DOMAIN UpperLetters : UpperLetters[i] = c]
  ELSE c

toLowerCase_asIs(t) == t

\* String.prototype.toLowerCase
toLowerCase(t) == [i \in 1..Len(t) |-> toLowerCaseChar(t[i])]

\* String.prototype.includes
includes(s, t) == \E i \in 0..(Len(s) - Len(t)) : SubSeq(s, i + 1, i + Len(t)) = t

SampleAddresses == {Oak, <<"o", "A", "K">>, <<"E", "l", "m">>}
SampleLocations ==
  [id : {1, 2}, address : SampleAddresses, customerMaterial : {"Lead"},
   supplierMaterial : {"Unknown"}, status : {"VERIFIED"}]
LocationLists == SeqsUpTo(SampleLocations, MaxLocs)
SearchTerms == SeqsUpTo({"a", "K"}, MaxTermLen)

filteredLocationsOf(locs, term) ==
  LET keep(loc) == ~(term # <<>> /\ ~includes(toLowerCase(loc.address), toLowerCase(term)))
  IN SelectSeq(locs, keep)

\* One render of LsiViewer with the given locations and searchTerm.
FilterInit ==
  /\ AuthIdle
  /\ FLIdle
  /\ GeoIdle
  /\ \E locs \in LocationLists, term \in SearchTerms :
       call = [op |-> "filteredLocations", locations |-> locs, searchTerm |-> term,
               done |-> FALSE, result |-> <<>>]

FilterLocations ==
  /\ call.op = "filteredLocations"
  /\ ~call.done
  /\ call' = [call EXCEPT !.done = TRUE,
                          !.result = filteredLocationsOf(call.locations, call.searchTerm)]
  /\ UNCHANGED <<vars, hookVars, flVars, geoVars>>

FilterNext == FilterLocations

SpecFilter == FilterInit /\ [][FilterNext]_allVars

(* -------------------------- buildWhereClause -------------------------- *)

\* number of entries of filters.status
MaxStatuses == 2

\* The predicate is a string; it is kept here as the sequence of its tokens.
\* A keyword, name or sign of the query language is Kw; a quoted literal is
\* Lit of the text between the quotes, exactly as it was put there.
Kw(s) == [t |-> "kw", v |-> s]
Lit(s) == [t |-> "lit", v |-> s]

ConstantTrue == <<Kw("1=1")>>

materialCondition(value) ==
  <<Kw("("), Kw("CustomerMaterial"), Kw("="), Lit(value), Kw("OR"),
    Kw("SupplierMaterial"), Kw("="), Lit(value), Kw(")")>>

\* Array.prototype.join(sep) of sequences of tokens
RECURSIVE join(_, _)
join(parts, sep) ==
  IF Len(parts) = 0 THEN <<>>
  ELSE IF Len(parts) = 1 THEN parts[1]
  ELSE parts[1] \o sep \o join(Tail(parts), sep)

statusCondition(status) ==
  <<Kw("Status"), Kw("IN"), Kw("(")>>
    \o join([i \in 1..Len(status) |-> <<Lit(status[i])>>], <<Kw(",")>>)
    \o <<Kw(")")>>

\* the status strings a caller may pass: FilterOptions.status is string[]
StatusInputs == {"VERIFIED", "ASSUMED", "UNKNOWN", "PENDING", "x' OR '1'='1"}

\* filters.status is <<>> when absent and <<list>> otherwise
FilterSelections ==
  [material : {"all", "lead", "unknown"},
   status : {<<>>} \cup {<<l>> : l \in SeqsUpTo(StatusInputs, MaxStatuses)}]

buildWhereClause_or(filters) ==
  LET m == IF filters.material = "lead" THEN <<materialCondition("Lead")>>
           ELSE IF filters.material = "unknown" THEN <<materialCondition("Unknown")>>
           ELSE <<>>
      s == IF filters.status # <<>> /\ Len(filters.status[1]) > 0
           THEN <<statusCondition(filters.status[1])>>
           ELSE <<>>
  IN IF Len(m \o s) > 0 THEN join(m \o s, <<Kw("OR")>>) ELSE ConstantTrue

buildWhereClause(filters) ==
  LET m == IF filters.material = "lead" THEN <<materialCondition("Lead")>>
           ELSE IF filters.material = "unknown" THEN <<materialCondition("Unknown")>>
           ELSE <<>>
      s == IF filters.status # <<>> /\ Len(filters.status[1]) > 0
           THEN <<statusCondition(filters.status[1])>>
           ELSE <<>>
      conditions == m \o s
  IN IF Len(conditions) > 0 THEN join(conditions, <<Kw("AND")>>) ELSE ConstantTrue

(* ------------------ MATERIAL_LABEL, getMaterialColor ------------------ *)

\* material codes as they may stand in a record, absent (NoText) included
MaterialCodes ==
  {NoText,
   <<"l", "e", "a", "d">>,
   <<"L", "e", "a", "d">>,
   <<"L", "E", "A", "D">>,
   <<"p", "b">>,
   <<"P", "B">>,
   <<"l">>,
   <<"L">>,
   <<"c", "o", "p", "p", "e", "r">>,
   <<"C", "o", "p", "p", "e", "r">>,
   <<"C", "u">>,
   <<"g", "a", "l", "v">>,
   <<"G", "a", "l", "v", "a", "n", "i", "z", "e", "d">>,
   <<"G", "A", "L", "V">>,
   <<"u", "n", "k", "n", "o", "w", "n">>,
   <<"U", "n", "k", "n", "o", "w", "n">>,
   <<"U", "N", "K">>,
   <<"u">>,
   <<>>,
   <<"G", "a", "l", "v", "a", "n", "i", "z", "e", "d", " ", "S", "t", "e", "e", "l">>,
   <<"P", "V", "C">>,
   <<"l", "e">>,
   <<"N", "o", "t", " ", "d", "e", "t", "e", "r", "m", "i", "n", "e", "d">>}

LeadText == <<"L", "e", "a", "d">>
CopperText == <<"C", "o", "p", "p", "e", "r">>
GalvanizedSteelText == <<"G", "a", "l", "v", "a", "n", "i", "z", "e", "d", " ", "S", "t", "e", "e", "l">>
NotDeterminedText == <<"N", "o", "t", " ", "d", "e", "t", "e", "r", "m", "i", "n", "e", "d">>
NullText == <<"n", "u", "l", "l">>

LeadCodes == {<<"l", "e", "a", "d">>, <<"p", "b">>, <<"l">>}
CopperCodes == {<<"c", "o", "p", "p", "e", "r">>, <<"c", "u">>}
GalvanizedCodes == {<<"g", "a", "l", "v">>, <<"g", "a", "l", "v", "a", "n", "i", "z", "e", "d">>}
UnknownCodes == {<<"u", "n", "k", "n", "o", "w", "n">>, <<"u", "n", "k">>, <<"u">>, <<>>}

AmberStyle == "text-amber-700 bg-amber-50 border-amber-200"
EmeraldStyle == "text-emerald-700 bg-emerald-50 border-emerald-200"
SlateStyle == "text-slate-700 bg-slate-50 border-slate-200"
NeutralStyle == "text-gray-600 bg-gray-50 border-gray-200"

\* String(code)
StringOf(code) == IF code = NoText THEN NullText ELSE code

MATERIAL_LABEL_asIs(code) ==
  IF code = NoText THEN NotDeterminedText
  ELSE IF code \in LeadCodes THEN LeadText
  ELSE IF code \in CopperCodes THEN CopperText
  ELSE IF code \in GalvanizedCodes THEN GalvanizedSteelText
  ELSE IF code \in UnknownCodes THEN NotDeterminedText
  ELSE code

MATERIAL_LABEL(code) ==
  IF code = NoText THEN NotDeterminedText
  ELSE LET v == toLowerCase(StringOf(code))
       IN IF v \in LeadCodes THEN LeadText
          ELSE IF v \in CopperCodes THEN CopperText
          ELSE IF v \in GalvanizedCodes THEN GalvanizedSteelText
          ELSE IF v \in UnknownCodes THEN NotDeterminedText
          ELSE StringOf(code)

getMaterialColor(material) ==
  LET m == toLowerCase(StringOf(material))
  IN IF m \in LeadCodes THEN AmberStyle
     ELSE IF m \in CopperCodes THEN EmeraldStyle
     ELSE IF m \in GalvanizedCodes THEN SlateStyle
     ELSE NeutralStyle

\* the badge of one material of the selected location: its style and label
materialBadge(material) ==
  [style |-> getMaterialColor(material), label |-> MATERIAL_LABEL(material)]

(* ------------------------ LsiViewer: lead banner ---------------------- *)

\* the materials of the selected location
SelectedMaterials == [customerMaterial : MaterialCodes, supplierMaterial : MaterialCodes]

LeadWord == <<"l", "e", "a", "d">>

leadBannerShown(selected) ==
  \/ toLowerCase(StringOf(selected.customerMaterial)) = LeadWord
  \/ toLowerCase(StringOf(selected.supplierMaterial)) = LeadWord

(* --------------------------- raw records ------------------------------ *)

\* records as the dataset may hold them, for featureToLocation
RawFeatures ==
  [OBJECTID : {1},
   Address : {Oak, NoText},
   CustomerMaterial : {"Lead", Null},
   SupplierMaterial : {"Unknown", ""},
   Status : {"VERIFIED", "ASSUMED", "UNKNOWN", "PENDING", "verified", "", Null}]

(* ------------------- one call of a pure function ---------------------- *)

FunctionInit ==
  /\ AuthIdle
  /\ FLIdle
  /\ GeoIdle
  /\ \/ \E filters \in FilterSelections :
          call = [op |-> "buildWhereClause", arg |-> filters, done |-> FALSE,
                  result |-> <<>>]
     \/ \E code \in MaterialCodes :
          call = [op |-> "materialBadge", arg |-> code, done |-> FALSE, result |-> <<>>]
     \/ \E selected \in SelectedMaterials :
          call = [op |-> "leadBanner", arg |-> selected, done |-> FALSE, result |-> <<>>]
     \/ \E feature \in RawFeatures :
          call = [op |-> "featureToLocation", arg |-> feature, done |-> FALSE,
                  result |-> <<>>]

FunctionRun(op, result) ==
  /\ call.op = op
  /\ ~call.done
  /\ call' = [call EXCEPT !.done = TRUE, !.result = result]
  /\ UNCHANGED <<vars, hookVars, flVars, geoVars>>

BuildWhereClause == FunctionRun("buildWhereClause", buildWhereClause(call.arg))
MaterialBadge == FunctionRun("materialBadge", materialBadge(call.arg))
LeadBanner == FunctionRun("leadBanner", leadBannerShown(call.arg))
FeatureToLocation == FunctionRun("featureToLocation", featureToLocation(call.arg))

FunctionNext ==
  \/ BuildWhereClause
  \/ MaterialBadge
  \/ LeadBanner
  \/ FeatureToLocation

SpecFunctions == FunctionInit /\ [][FunctionNext]_allVars

(* ---------------------------- useArcGISAuth --------------------------- *)

\* checkAuth after `await authService.checkForCallback()`: the flag takes
\* the session's answer when the call returned, the error is set when it
\* threw, and loading ends in both cases
checkAuthSettled(h, threw, authenticated) ==
  IF threw
  THEN [h EXCEPT !.error = "Authentication failed", !.loading = FALSE, !.checkAuth = "done"]
  ELSE [h EXCEPT !.isAuthenticated = authenticated, !.loading = FALSE,
                 !.checkAuth = "done"]

\* the mount effect: checkAuth up to the point where checkForCallback has
\* returned, has thrown, or awaits the token endpoint
MountCheckAuth ==
  /\ authHook.checkAuth = "pending"
  /\ CheckForCallbackStep
  /\ authHook' = IF last'.outcome = "pending"
                 THEN [authHook EXCEPT !.checkAuth = "awaiting"]
                 ELSE checkAuthSettled(authHook, last'.outcome = "threw",
                                       isAuthenticated(Session, now))

\* the token endpoint answers the exchange that checkAuth awaits
MountCheckAuthSettle ==
  /\ authHook.checkAuth = "awaiting"
  /\ HandleCallbackSettleStep
  /\ authHook' = checkAuthSettled(authHook, last'.outcome = "threw",
                                  isAuthenticated(Session', now))

\* the hook's login, up to its await of authService.login()
HookLogin ==
  /\ LoginCallStep
  /\ authHook' = [authHook EXCEPT !.error =
                    IF last'.outcome = "threw" THEN "Login failed" ELSE Null]

\* the hook's logout
HookLogout ==
  /\ LogoutStep
  /\ authHook' = [authHook EXCEPT !.isAuthenticated = FALSE, !.error = Null]

\* the viewer is opened on one of its pages
HookInit ==
  /\ clientId \in ClientIds
  /\ accessToken = NewSession.accessToken
  /\ refreshToken = NewSession.refreshToken
  /\ tokenExpiry = NewSession.tokenExpiry
  /\ codeVerifier = NewSession.codeVerifier
  /\ sessionStorage = NewSession.sessionStorage
  /\ location \in [pathname : AppPaths, code : {Null}]
  /\ now = StartNow
  /\ pending = NoPending
  /\ last = [op |-> "construct", via |-> "direct", phase |-> "call", outcome |-> "returned",
             req |-> NoRequest, resp |-> NoResponse]
  /\ reauthRequired = FALSE
  /\ ViewIdle
  /\ authHook = HookMounting

HookNext ==
  \/ Tick
  \/ MountCheckAuth
  \/ MountCheckAuthSettle
  \/ HookLogin
  \/ LoginResume
  \/ ProviderRedirect
  \/ Reload
  \/ HookLogout

SpecAuthHook == HookInit /\ [][HookNext]_allVars

(* ------------------------------- claims ------------------------------- *)

\* a token is held, an expiry is held and the clock is strictly before it
CredentialValid ==
  /\ accessToken # Null
  /\ tokenExpiry # NoExpiry
  /\ now < tokenExpiry[1]

\* C1: in every reachable state isAuthenticated() is true exactly when a
\* token and an expiry are present and the current time is strictly before
\* the expiry, and getAccessToken() returns the token exactly then and
\* absent otherwise.
C1_AuthenticatedIffValid ==
  /\ isAuthenticated(Session, now) <=> CredentialValid
  /\ getAccessToken(Session, now) = (IF CredentialValid THEN accessToken ELSE Null)

\* C1 witness: a token is held and the clock stands exactly at its expiry
C1_Witness ==
  /\ accessToken # Null
  /\ tokenExpiry # NoExpiry
  /\ now = tokenExpiry[1]
  /\ getAccessToken(Session, now) = Null

\* C2: a request built by a query operation carries a token only if the
\* session then holds that token with an expiry strictly in the future; with
\* an expired or cleared credential the request is still built, without token.
C2_QueryTokenOnlyWhileValid ==
  last.op \in QueryOps =>
    /\ last.req.endpoint = "query"
    /\ last.req.op = last.op
    /\ last.req.token # Null => (CredentialValid /\ last.req.token = accessToken)
    /\ ~CredentialValid => last.req.token = Null

\* C2 witness: a query request built while an expired token is still stored
C2_Witness ==
  /\ last.op \in QueryOps
  /\ accessToken # Null
  /\ ~CredentialValid
  /\ last.req.token = Null

\* C3: a handleCallback that fails leaves the access token, the refresh token
\* and the expiry as they were: without a stored verifier it throws when
\* called, before any token request is built; with a rejected fetch or a
\* non-success status it throws when the response arrives.
C3_FailedCallbackKeepsCredential ==
  [][ /\ (last'.op = "handleCallback" /\ last'.outcome = "threw") =>
        /\ UNCHANGED <<accessToken, refreshToken, tokenExpiry>>
        /\ last'.phase = "call" =>
             /\ sessionStorage.pkce_verifier = Null
             /\ last'.req = NoRequest
             /\ UNCHANGED pending
        /\ last'.phase = "settle" => last'.resp.kind \in {"notok", "neterr"}
      /\ (last'.op = "handleCallback" /\ last'.phase = "call"
            /\ sessionStorage.pkce_verifier = Null) => last'.outcome = "threw"
      /\ (last'.op = "handleCallback" /\ last'.phase = "settle"
            /\ last'.resp.kind = "notok") => last'.outcome = "threw"
    ]_vars

\* C3 witness: a code exchange answered with a non-success status while a
\* credential from an earlier exchange is held
C3_Witness ==
  /\ last.op = "handleCallback"
  /\ last.phase = "settle"
  /\ last.outcome = "threw"
  /\ last.resp.kind = "notok"
  /\ accessToken # Null
  /\ refreshToken # Null

\* C4 (as claimed): once the token endpoint has answered a code exchange
\* with a success or a non-success status, the stored verifier is removed
\* from the session store.
C4_VerifierClearedAfterExchange ==
  (last.op = "handleCallback" /\ last.phase = "settle"
     /\ last.resp.kind \in {"ok", "notok"})
    => sessionStorage.pkce_verifier = Null

\* C5: a handleCallback whose exchange succeeded has set the access token and
\* the refresh token to the provider's values and the expiry to the current
\* time plus the lifetime in milliseconds; with a positive lifetime the
\* session is then authenticated and hands out the new token.
C5_SuccessfulExchangePopulates ==
  (last.op = "handleCallback" /\ last.outcome = "returned") =>
    /\ last.phase = "settle"
    /\ last.resp.kind = "ok"
    /\ accessToken = last.resp.access_token
    /\ refreshToken = last.resp.refresh_token
    /\ tokenExpiry = <<now + last.resp.expires_in * 1000>>
    /\ last.resp.expires_in > 0 =>
         /\ isAuthenticated(Session, now)
         /\ getAccessToken(Session, now) = last.resp.access_token

\* C5 witness: an exchange that succeeded with a positive lifetime
C5_Witness ==
  /\ last.op = "handleCallback"
  /\ last.outcome = "returned"
  /\ last.resp.expires_in > 0
  /\ accessToken = last.resp.access_token

\* C6: when the provider rejects a refresh request, refreshAccessToken throws
\* and the session is fully logged out: token, refresh token, expiry,
\* verifier and both session-store entries are absent.
C6_RejectedRefreshLogsOut ==
  (last.op = "refreshAccessToken" /\ last.phase = "settle"
     /\ last.resp.kind = "notok") =>
    /\ last.outcome = "threw"
    /\ accessToken = Null
    /\ refreshToken = Null
    /\ tokenExpiry = NoExpiry
    /\ codeVerifier = Null
    /\ sessionStorage = [pkce_verifier |-> Null, auth_redirect |-> Null]
    /\ ~isAuthenticated(Session, now)

\* C6 witness: a refresh request was rejected
C6_Witness ==
  /\ last.op = "refreshAccessToken"
  /\ last.phase = "settle"
  /\ last.resp.kind = "notok"
  /\ reauthRequired

\* C7: the step in which a refresh succeeds changes the access token and the
\* expiry and leaves the refresh token, the in-memory verifier and the
\* session store as they were.
C7_RefreshFrame ==
  [][ (last'.op = "refreshAccessToken" /\ last'.outcome = "returned") =>
        /\ last'.resp.kind = "ok"
        /\ accessToken' = last'.resp.access_token
        /\ tokenExpiry' = <<now + last'.resp.expires_in * 1000>>
        /\ UNCHANGED <<refreshToken, codeVerifier, sessionStorage>>
    ]_vars

\* C7 witness: a refresh succeeded and the refresh token is still held
C7_Witness ==
  /\ last.op = "refreshAccessToken"
  /\ last.outcome = "returned"
  /\ refreshToken # Null
  /\ accessToken = last.resp.access_token

\* C8: refreshAccessToken sends a request only while a refresh token is
\* held; called without one it throws, builds no request and changes nothing,
\* and from a rejected refresh until the next successful code exchange no
\* refresh request is built.
C8_RefreshNeedsRefreshToken ==
  [][ (last'.op = "refreshAccessToken" /\ last'.phase = "call") =>
        /\ refreshToken = Null =>
             /\ last'.outcome = "threw"
             /\ last'.req = NoRequest
             /\ UNCHANGED <<accessToken, refreshToken, tokenExpiry, codeVerifier,
                            sessionStorage, location, pending>>
        /\ refreshToken # Null =>
             /\ last'.outcome = "pending"
             /\ last'.req = refreshRequest(refreshToken)
        /\ reauthRequired => last'.req = NoRequest
    ]_vars

\* C8 witness: refreshAccessToken was called after a rejected refresh and
\* threw without sending anything
C8_Witness ==
  /\ last.op = "refreshAccessToken"
  /\ last.phase = "call"
  /\ last.outcome = "threw"
  /\ reauthRequired

\* C9: after logout the token, the refresh token, the expiry, the verifier
\* and both session-store entries are absent and the session is not
\* authenticated; a second logout changes nothing, from any reachable state.
C9_LogoutClearsAndIsIdempotent ==
  /\ last.op = "logout" =>
       /\ accessToken = Null
       /\ refreshToken = Null
       /\ tokenExpiry = NoExpiry
       /\ codeVerifier = Null
       /\ sessionStorage.pkce_verifier = Null
       /\ sessionStorage.auth_redirect = Null
       /\ ~isAuthenticated(Session, now)
       /\ logout(Session) = Session
  /\ logout(logout(Session)) = logout(Session)

\* C9 witness: logout ran while a code exchange was awaiting its answer
C9_Witness ==
  /\ last.op = "logout"
  /\ \E i \in Slots : pending[i].op = "handleCallback"

\* C10 (as claimed): a new session holds no credential, and the access token
\* goes from absent to present only in the step in which a handleCallback
\* code exchange succeeds.
C10_CredentialOnlyFromExchange ==
  /\ Init => (accessToken = Null /\ ~isAuthenticated(Session, now))
  /\ [][ (accessToken = Null /\ accessToken' # Null) =>
           (last'.op = "handleCallback" /\ last'.outcome = "returned")
       ]_vars

\* C11: login() without a configured client identifier throws when called
\* and changes nothing: no verifier is generated or stored, no path is
\* stored, the address stays and the credential fields stay.  With a client
\* identifier the step that leaves for the authorization endpoint has stored
\* the new verifier and the path the user was on.
C11_LoginNeedsClientId ==
  [][ last'.op = "login" =>
        /\ UNCHANGED <<accessToken, refreshToken, tokenExpiry>>
        /\ clientId = "" =>
             /\ last'.phase = "call"
             /\ last'.outcome = "threw"
             /\ UNCHANGED <<codeVerifier, sessionStorage, location, pending>>
        /\ last'.phase = "call" => UNCHANGED <<codeVerifier, sessionStorage, location>>
        /\ last'.phase = "settle" =>
             /\ clientId # ""
             /\ codeVerifier' \in Verifiers
             /\ sessionStorage'.pkce_verifier = codeVerifier'
             /\ sessionStorage'.auth_redirect = location.pathname
             /\ location'.pathname = AuthorizePath
    ]_vars

\* C11 witness: login() was called without a client identifier and threw
C11_Witness ==
  /\ clientId = ""
  /\ last.op = "login"
  /\ last.outcome = "threw"
  /\ sessionStorage = [pkce_verifier |-> Null, auth_redirect |-> Null]
  /\ location.pathname \in AppPaths

\* C12: checkForCallback() returns true in the step in which the exchange of
\* the code found in the address succeeds; that step puts the stored
\* pre-login path ("/" when none is stored) in the address, without code, and
\* removes the stored path.  Without a code in the address it returns false
\* at once and changes neither session, session store, address nor requests.
\* (checkForCallback returning true is the step of handleCallback via
\* checkForCallback with outcome "returned"; returning false is the step of
\* checkForCallback itself.)
C12_CallbackRestoresPath ==
  [][ /\ (last'.via = "checkForCallback" /\ last'.phase = "call")
           => location.code # Null
      /\ (last'.via = "checkForCallback" /\ last'.outcome = "returned") =>
           /\ last'.phase = "settle"
           /\ last'.resp.kind = "ok"
           /\ location' = [pathname |-> (IF sessionStorage.auth_redirect = Null
                                         THEN "/"
                                         ELSE sessionStorage.auth_redirect),
                           code |-> Null]
           /\ sessionStorage'.auth_redirect = Null
      /\ last'.op = "checkForCallback" =>
           /\ location.code = Null
           /\ last'.outcome = "returned"
           /\ UNCHANGED <<accessToken, refreshToken, tokenExpiry, codeVerifier,
                          sessionStorage, location, pending>>
    ]_vars

\* C12 witness: the callback was processed and the address went back to the
\* page the user had started the sign-in from
C12_Witness ==
  /\ last.via = "checkForCallback"
  /\ last.outcome = "returned"
  /\ location = [pathname |-> "/lsi", code |-> Null]
  /\ sessionStorage.auth_redirect = Null

\* C13 (as claimed): once the token endpoint has answered the exchange that
\* checkForCallback started, with success or with a non-success status, the
\* code is no longer in the address.
C13_CodeScrubbedAfterCallback ==
  (last.via = "checkForCallback" /\ last.phase = "settle"
     /\ last.resp.kind \in {"ok", "notok"})
    => location.code = Null

\* the session holds a refresh token and an access token that has expired
ExpiredWithRefreshToken ==
  /\ accessToken # Null
  /\ refreshToken # Null
  /\ ~CredentialValid

\* a refresh request is awaiting its answer
Refreshing == \E i \in Slots : pending[i].op = "refreshAccessToken"

\* C14 (as claimed): a session that holds a refresh token and whose access
\* token has expired goes on to the Refreshing step: eventually a refresh
\* request is in flight or a valid credential is held again, unless the
\* session was cleared or the page was left in the meantime.
C14_ExpiredIsRefreshed ==
  ExpiredWithRefreshToken ~>
    (Refreshing \/ CredentialValid \/ refreshToken = Null \/ ~OnApp)

\* a transport error, or an answer whose body is a provider error payload
TransportOrProviderError(resp) ==
  \/ resp.kind = "neterr"
  \/ resp.kind = "http" /\ resp.body.json = "error"

\* C17: when the request fails in transport or the provider answers with an
\* error payload, queryFeatures and queryFeaturesInExtent reject, while
\* getFeatureStats resolves to the all-zero statistics and queryFeatureById
\* resolves to null; the latter two never reject, whatever the answer.
C17_ClientFailureModes ==
  (call.op \in QueryOps /\ call.done) =>
    /\ (call.op \in {"getFeatureStats", "queryFeatureById"} =>
          call.result.settled = "resolved")
    /\ TransportOrProviderError(call.resp) =>
         CASE call.op \in {"queryFeatures", "queryFeaturesInExtent"} ->
                call.result.settled = "rejected"
           [] call.op = "getFeatureStats" -> call.result.value = ZeroStats
           [] call.op = "queryFeatureById" -> call.result.value = <<>>

C17_Witness ==
  /\ call.op = "queryFeatures"
  /\ call.done
  /\ call.resp.kind = "http"
  /\ call.resp.ok
  /\ call.resp.body.json = "error"
  /\ call.result.settled = "rejected"

FetchSettled == flLast.op = "fetchData" /\ flLast.phase = "settle"

\* C15: a fetch round that settles after a newer round was dispatched never
\* overwrites the location list and the stats: a settling round that
\* replaces them is the most recently dispatched one.
C15_OnlyNewestFetchWins ==
  [][(FetchSettled' /\ (locations' # locations \/ stats' # stats))
       => flLast'.gen = dispatched']_allVars

\* the request failed in transport, or was answered with an error payload
OutlineFailed(o) == o.kind = "neterr" \/ (o.kind = "http" /\ o.json = "error")
\* what makes queryFeatures fail: the above, a non-success status, or a
\* body that holds no feature list
QueryFailed(o) == o.kind = "neterr" \/ ~o.ok \/ o.json # "items"

\* C16 (as stated): a fetch round in which the query-by-filter request or
\* the aggregate-stats request fails ends with a non-null error and with
\* the locations and stats shown before the round.
C16_AnyFailureSetsError ==
  [][(FetchSettled' /\ (OutlineFailed(flLast'.q) \/ OutlineFailed(flLast'.s)))
       => (error' # Null /\ locations' = locations /\ stats' = stats)]_allVars

\* C16 (amended): a round whose query-by-filter request fails ends with a
\* non-null error and with the locations and stats shown before; a round in
\* which only the aggregate-stats request fails ends with no new error and
\* with the all-zero stats next to the locations the query returned.
C16_QueryFailureSetsError ==
  [][FetchSettled' =>
       /\ QueryFailed(flLast'.q) =>
            (error' # Null /\ locations' = locations /\ stats' = stats)
       /\ (~QueryFailed(flLast'.q) /\ OutlineFailed(flLast'.s)) =>
            (error' = error /\ stats' = ZeroStats)]_allVars

C16_Witness ==
  /\ FetchSettled
  /\ QueryFailed(flLast.q)
  /\ error # Null
  /\ Len(locations) > 0
  /\ stats.total > 0

\* the text is absent or shorter than n characters
ShortText(t, n) == t = NoText \/ Len(t) < n

ResolverReturned(op) == call.op = op /\ call.done
HookCalled(op) == geoLast.op = op /\ geoLast.phase = "call"

\* C18: geocodeAddress and the hook's search, given an absent text or one of
\* fewer than 3 characters, and getSuggestions and the hook's
\* fetchSuggestions, given an absent text or one of fewer than 2 characters,
\* send no request and give the empty list (the hook as its results or its
\* suggestions).
C18_ShortTextSendsNothing ==
  /\ (ResolverReturned("geocodeAddress") /\ ShortText(call.text, 3)) =>
       (~call.sent /\ call.result = Resolved(<<>>))
  /\ (ResolverReturned("getSuggestions") /\ ShortText(call.text, 2)) =>
       (~call.sent /\ call.result = Resolved(<<>>))
  /\ (HookCalled("search") /\ ShortText(geoLast.text, 3)) =>
       (~geoLast.sent /\ results = <<>>)
  /\ (HookCalled("fetchSuggestions") /\ ShortText(geoLast.text, 2)) =>
       (~geoLast.sent /\ suggestions = <<>>)

C18_Witness ==
  /\ ResolverReturned("geocodeAddress")
  /\ Len(call.text) = 2
  /\ call.text # NoText
  /\ ~call.sent

\* a transport failure, a non-success status or a provider error payload
ResolverFailure(resp) ==
  \/ resp.kind = "neterr"
  \/ resp.kind = "http" /\ (~resp.ok \/ resp.body.json = "error")

\* C19: no resolver function rejects, and when its request fails in
\* transport, gets a non-success status or gets an error payload, it
\* resolves to the empty list (geocodeAddress, getSuggestions) or to null
\* (findAddressFromMagicKey, reverseGeocode).
C19_ResolverFailuresAreEmpty ==
  (call.op \in ResolverOps /\ call.done) =>
    /\ call.result.settled = "resolved"
    /\ (call.sent /\ ResolverFailure(call.resp)) => call.result.value = <<>>

\* a and b are the same character up to the case of a letter
SameLetter(a, b) ==
  a = b \/ \E i \in DOMAIN UpperLetters : {a, b} = {UpperLetters[i], LowerLetters[i]}

\* some stretch of s spells t, case ignored
ContainsIgnoringCase(s, t) ==
  \E i \in 0..(Len(s) - Len(t)) : \A k \in 1..Len(t) : SameLetter(s[i + k], t[k])

MatchingIndexes(locs, term) ==
  {i \in 1..Len(locs) : ContainsIgnoringCase(locs[i].address, term)}

NthOf(S, n) == CHOOSE i \in S : Cardinality({j \in S : j < i}) = n - 1

\* C20: filteredLocations holds exactly the records of locations whose
\* address contains the search text, case ignored, in their order (all of
\* them when the text is empty): every record of it is a record of
\* locations, and it has no more records than locations.
C20_FilterIsRefinement ==
  (call.op = "filteredLocations" /\ call.done) =>
    LET M == MatchingIndexes(call.locations, call.searchTerm)
    IN /\ Len(call.result) = Cardinality(M)
       /\ \A n \in 1..Len(call.result) : call.result[n] = call.locations[NthOf(M, n)]
       /\ Len(call.result) <= Len(call.locations)
       /\ (call.searchTerm = <<>> => call.result = call.locations)

C20_Witness ==
  /\ call.op = "filteredLocations"
  /\ call.done
  /\ call.searchTerm = <<"a", "K">>
  /\ Len(call.locations) = 2
  /\ Len(call.result) = 1
  /\ call.result[1].address = Oak

\* --- the meaning of a predicate for a record of the dataset ---

WhereRecords ==
  [CustomerMaterial : {"Lead", "Copper", "Unknown"},
   SupplierMaterial : {"Lead", "Copper", "Unknown"},
   Status : {"VERIFIED", "ASSUMED", "UNKNOWN"}]

\* the positions of the AND tokens of a predicate
AndPositions(w) == {i \in 1..Len(w) : w[i] = Kw("AND")}

\* the conditions of a predicate: the stretches between its AND tokens
ConditionsOf(w) ==
  LET cuts == {0} \cup AndPositions(w) \cup {Len(w) + 1}
  IN {SubSeq(w, a + 1, b - 1) :
        <<a, b>> \in {p \in cuts \X cuts :
                        p[1] < p[2] /\ ~\E c \in cuts : p[1] < c /\ c < p[2]}}

\* name = 'value' OR name = 'value', in parentheses
IsMaterialCondition(c) ==
  /\ Len(c) = 9
  /\ <<c[1], c[3], c[5], c[7], c[9]>> = <<Kw("("), Kw("="), Kw("OR"), Kw("="), Kw(")")>>
  /\ c[2].t = "kw" /\ c[6].t = "kw" /\ c[4].t = "lit" /\ c[8].t = "lit"

IsStatusCondition(c) ==
  /\ Len(c) >= 4
  /\ <<c[1], c[2], c[3], c[Len(c)]>> = <<Kw("Status"), Kw("IN"), Kw("("), Kw(")")>>

StatusLiterals(c) == {c[i].v : i \in {j \in 4..(Len(c) - 1) : c[j].t = "lit"}}

FieldOf(r, name) ==
  CASE name = "CustomerMaterial" -> r.CustomerMaterial
    [] name = "SupplierMaterial" -> r.SupplierMaterial
    [] name = "Status" -> r.Status

ConditionHolds(c, r) ==
  IF c = ConstantTrue THEN TRUE
  ELSE IF IsMaterialCondition(c)
       THEN FieldOf(r, c[2].v) = c[4].v \/ FieldOf(r, c[6].v) = c[8].v
  ELSE IF IsStatusCondition(c) THEN r.Status \in StatusLiterals(c)
  ELSE FALSE

Holds(w, r) == \A c \in ConditionsOf(w) : ConditionHolds(c, r)

EitherSideIs(r, value) == r.CustomerMaterial = value \/ r.SupplierMaterial = value

NoStatusFilter(filters) == filters.status = <<>> \/ filters.status = <<(<<>>)>>

WhereBuilt == call.op = "buildWhereClause" /\ call.done

\* C21: the predicate is the constant 1=1 exactly when the material is
\* "all" and the status list is absent or empty; for material "lead"
\* ("unknown") it has a condition that holds exactly for the records whose
\* customer-side or supplier-side material is Lead (Unknown); a material
\* condition and a status condition are joined by AND, so the predicate
\* holds exactly for the records that satisfy both.
C21_WhereClauseMeaning ==
  WhereBuilt =>
    LET f == call.arg
        w == call.result
    IN /\ (w = ConstantTrue) <=> (f.material = "all" /\ NoStatusFilter(f))
       /\ f.material = "lead" =>
            \E c \in ConditionsOf(w) :
              \A r \in WhereRecords : ConditionHolds(c, r) <=> EitherSideIs(r, "Lead")
       /\ f.material = "unknown" =>
            \E c \in ConditionsOf(w) :
              \A r \in WhereRecords : ConditionHolds(c, r) <=> EitherSideIs(r, "Unknown")
       /\ (f.material # "all" /\ ~NoStatusFilter(f)) =>
            /\ Cardinality(AndPositions(w)) = 1
            /\ \A r \in WhereRecords :
                 Holds(w, r) <=>
                   /\ EitherSideIs(r, IF f.material = "lead" THEN "Lead" ELSE "Unknown")
                   /\ \E i \in 1..Len(f.status[1]) : f.status[1][i] = r.Status

C21_Witness ==
  /\ WhereBuilt
  /\ call.arg.material = "lead"
  /\ call.arg.status = <<(<<"VERIFIED", "ASSUMED">>)>>
  /\ Cardinality(AndPositions(call.result)) = 1

ClosedStatusSet == {"VERIFIED", "ASSUMED", "UNKNOWN"}

\* C22: every status literal of the predicate that buildWhereClause returns
\* is a member of the closed status set; a status string outside the set,
\* one that holds a quote character included, is not put into the predicate.
C22_OnlyKnownStatusLiterals ==
  WhereBuilt =>
    \A c \in ConditionsOf(call.result) :
      IsStatusCondition(c) => StatusLiterals(c) \subseteq ClosedStatusSet

\* s and t are the same text up to the case of their letters
EqualsIgnoringCase(s, t) ==
  Len(s) = Len(t) /\ \A k \in 1..Len(s) : SameLetter(s[k], t[k])

SpelledBy(code, words) == code # NoText /\ \E w \in words : EqualsIgnoringCase(code, w)

BadgeMade == call.op = "materialBadge" /\ call.done

\* the label that the classifier is to give to a code
LabelFor(code) ==
  IF code = NoText THEN NotDeterminedText
  ELSE IF SpelledBy(code, {<<"L", "E", "A", "D">>, <<"P", "B">>, <<"L">>}) THEN LeadText
  ELSE IF SpelledBy(code, {<<"C", "O", "P", "P", "E", "R">>, <<"C", "U">>}) THEN CopperText
  ELSE IF SpelledBy(code, {<<"G", "A", "L", "V">>, <<"G", "A", "L", "V", "A", "N", "I", "Z", "E", "D">>}) THEN GalvanizedSteelText
  ELSE IF SpelledBy(code, {<<"U", "N", "K", "N", "O", "W", "N">>, <<"U", "N", "K">>, <<"U">>, <<>>}) THEN NotDeterminedText
  ELSE code

\* the style category that goes with a label
StyleForLabel(label) ==
  IF label = LeadText THEN AmberStyle
  ELSE IF label = CopperText THEN EmeraldStyle
  ELSE IF label = GalvanizedSteelText THEN SlateStyle
  ELSE NeutralStyle

\* C23 (as stated): the classifier gives every code its label (lead/pb/l
\* Lead, copper/cu Copper, galv/galvanized Galvanized Steel,
\* unknown/unk/u/empty/absent Not determined, case ignored, any other
\* string itself), and the style category is the one of the label shown.
C23_StyleAgreesWithLabel ==
  BadgeMade =>
    /\ call.result.label = LabelFor(call.arg)
    /\ call.result.style = StyleForLabel(call.result.label)

\* C23 (amended): the classifier gives every code its label as above, and
\* the style category is decided by the same codes: amber for lead/pb/l,
\* emerald for copper/cu, slate for galv/galvanized, neutral for every
\* other input, a passed-through string that spells a label included.
C23_StyleFollowsCode ==
  BadgeMade =>
    /\ call.result.label = LabelFor(call.arg)
    /\ call.result.style =
         IF SpelledBy(call.arg, {<<"L", "E", "A", "D">>, <<"P", "B">>, <<"L">>}) THEN AmberStyle
         ELSE IF SpelledBy(call.arg, {<<"C", "O", "P", "P", "E", "R">>, <<"C", "U">>}) THEN EmeraldStyle
         ELSE IF SpelledBy(call.arg, {<<"G", "A", "L", "V">>, <<"G", "A", "L", "V", "A", "N", "I", "Z", "E", "D">>}) THEN SlateStyle
         ELSE NeutralStyle

C23_Witness ==
  /\ BadgeMade
  /\ call.arg = <<"P", "B">>
  /\ call.result.label = LeadText
  /\ call.result.style = AmberStyle

\* the counts of a list of records, taken one record after the other
RECURSIVE Tally(_)
Tally(fs) ==
  IF fs = <<>> THEN [total |-> 0, lead |-> 0, unknown |-> 0, verified |-> 0, assumed |-> 0]
  ELSE LET t == Tally(Tail(fs))
           f == Head(fs)
           One(b) == IF b THEN 1 ELSE 0
       IN [total |-> t.total + 1,
           lead |-> t.lead + One(f.CustomerMaterial = "Lead" \/ f.SupplierMaterial = "Lead"),
           unknown |-> t.unknown
                         + One(f.CustomerMaterial = "Unknown" \/ f.SupplierMaterial = "Unknown"),
           verified |-> t.verified + One(f.Status = "VERIFIED"),
           assumed |-> t.assumed + One(f.Status = "ASSUMED")]

Reorderings(fs) ==
  {[i \in 1..Len(fs) |-> fs[p[i]]] :
     p \in {q \in [1..Len(fs) -> 1..Len(fs)] : \A i, j \in 1..Len(fs) : q[i] = q[j] => i = j}}

StatsReturned ==
  /\ call.op = "getFeatureStats"
  /\ call.done
  /\ call.resp.kind = "http"
  /\ call.resp.body.json = "items"

\* C24: for the records of an answer, getFeatureStats gives total = their
\* number, lead = the number with Lead on either side, unknown = the number
\* with Unknown on either side, verified and assumed = the number with that
\* status; the same records in any other order give the same counts; and
\* lead, unknown and verified + assumed are at most total.
C24_StatsAreCounts ==
  StatsReturned =>
    LET st == call.result.value
        fs == call.resp.body.items
    IN /\ st = Tally(fs)
       /\ \A gs \in Reorderings(fs) :
            getFeatureStatsSettled([call.resp EXCEPT !.body.items = gs]).value = st
       /\ st.lead <= st.total
       /\ st.unknown <= st.total
       /\ st.verified + st.assumed <= st.total

C24_Witness ==
  /\ StatsReturned
  /\ call.result.value.total = 2
  /\ call.result.value.lead = 2
  /\ call.result.value.unknown = 1
  /\ call.result.value.verified = 1
  /\ call.result.value.assumed = 0
  /\ call.resp.body.items[1].CustomerMaterial # "Lead"

LocationBuilt == call.op = "featureToLocation" /\ call.done

\* C25: the status of a Location built from a raw record is one of
\* VERIFIED, ASSUMED, UNKNOWN: a raw status that is absent, empty or any
\* other value gives UNKNOWN.
C25_StatusInClosedSet ==
  LocationBuilt =>
    /\ call.result.status \in ClosedStatusSet
    /\ call.arg.Status \notin {"VERIFIED", "ASSUMED"} => call.result.status = "UNKNOWN"

BannerDecided == call.op = "leadBanner" /\ call.done

\* C29: the banner 'Lead Service Line Detected' is shown for the selected
\* location exactly when the classifier labels its customer-side or its
\* supplier-side material Lead.
C29_BannerIffLabelledLead ==
  BannerDecided =>
    (call.result <=> (\/ MATERIAL_LABEL(call.arg.customerMaterial) = LeadText
                      \/ MATERIAL_LABEL(call.arg.supplierMaterial) = LeadText))

\* C26: loading is true in every state in which a dispatched fetch round
\* has not settled yet, two rounds outstanding together included.
C26_LoadingWhileOutstanding == rounds # {} => loading

C28_FlagImpliesAuthenticated ==
  authHook.isAuthenticated => isAuthenticated(Session, now)

====
